---- MODULE Spec2Model ----
(***************************************************************************)
(* A model of gh-csfs: one session of App.Run with its background          *)
(* goroutines (sshServer.Listen and its helpers, syncer.Sync,              *)
(* watcher.Watch), the channels they share and the environment (the        *)
(* keyboard, the filesystem, the debounce ticker, the tunnel process, the  *)
(* caller's context).                                                      *)
(***************************************************************************)
EXTENDS Naturals, Sequences, FiniteSets, TLC

VARIABLES
    mainPc,        \* position of App.Run
    runErr,        \* what Run returns: "none" while running, "nil", or an error
    exitCase,      \* the branch through which Run left ("none" while running)
    mainXfer,      \* the inbound transfer Run has in flight ("none" if none)
    conn,          \* the connection parameters Run received on Ready()
    quitHandled,   \* a quit key has put its signal on the exit channel
    ctx,           \* Run's context: "live", "parent" (caller cancelled), "deferred"
    sshCtxErr,     \* sshServerCtx.Err(): "none", "deadline", "canceled"
    errch,         \* Run's failure channel (buffered)
    errchClosed,   \* close(errch) has run
    panicked,      \* the process has panicked
    exit,          \* number of signals in the exit channel
    listenPc,      \* position of the goroutine running sshServer.Listen
    procState,     \* the gh process: "none", "created", "running", "startFailed", "exited"
    procKilled,    \* the gh process has been sent a kill
    bannerSeen,    \* the process has written its banner
    lerrch,        \* Listen's internal errch (buffered)
    wch,           \* Listen's wch: the parsed connection parameters
    wchClosed,     \* close(w.ready) has run
    readyPc,       \* position of Listen's readiness goroutine
    probed,        \* a dial to the port has succeeded
    syncPc,        \* position of the goroutine running syncer.Sync
    sigLen,        \* number of signals buffered in syncer.syncToCodespace
    tickPending,   \* ticker.C holds a tick
    owed,          \* SyncToCodespace was called and no outbound transfer started since
    intervalCalls, \* SyncToCodespace calls since the last tick (capped)
    intervalXfers, \* outbound transfers started since the last tick (capped)
    lastEvent,     \* the syncType the dispatch loop has received and not yet shown
    watchPc,       \* position of the goroutine running watcher.Watch
    failed,        \* a failure other than a cancellation has occurred
    chunks,        \* the output stream given to a writer on its own (WriterSpec)
    pos,           \* how many of these chunks have been written
    syncerConn,    \* the user and port the syncer was built with (NoConn before)
    workspaceExists, \* setupSyncer's result: the local workspace directory exists
    deleteFiles,   \* opts.DeleteFiles, as initialSync is given it
    offered,       \* the syncType the step just taken offered on syncEvent
    fsTree,        \* the local tree newWatcher walks on its own (WatcherSpec)
    excludes,      \* the syncer's excludes in that walk
    includes,      \* the watch patterns in that walk
    walked,        \* that walk has been made
    watchPaths     \* the directories the walk registered with the watcher

mainVars == <<mainPc, runErr, exitCase, mainXfer, conn, quitHandled>>
ctxVars == <<ctx, sshCtxErr>>
chanVars == <<errch, errchClosed, panicked, exit>>
tunnelVars ==
    <<listenPc, procState, procKilled, bannerSeen, lerrch, wch, wchClosed, readyPc, probed>>
syncVars == <<syncPc, sigLen, tickPending, owed, intervalCalls, intervalXfers, lastEvent>>
writerVars == <<chunks, pos>>
setupVars == <<syncerConn, workspaceExists, deleteFiles>>
walkVars == <<fsTree, excludes, includes, walked, watchPaths>>
vars ==
    <<mainVars, ctxVars, chanVars, tunnelVars, syncVars, watchPc, failed, writerVars,
      setupVars, offered, walkVars>>

----------------------------------------------------------------------------
(* Program constants and bounds *)

ErrchCap == 3
ExitCap == 1
ListenErrchCap == 3
SignalCap == 0
MaxCount == 2
MaxChunks == 3

NoConn == [user |-> <<>>, port |-> 0]
Conns == {[user |-> <<"codespace">>, port |-> 2222]}

\* The key events the dispatch loop tells apart: Ctrl-C and Ctrl-D are
\* handled as 'q' is.
Keys == {"q", "ctrlC", "ctrlD", "s", "d", "enter", "err"}

IsQuitKey(k) == k \in {"q", "ctrlC", "ctrlD"}

Inc(n) == IF n < MaxCount THEN n + 1 ELSE n

ctxDone == ctx # "live"

----------------------------------------------------------------------------
(* Channels and processes *)

\* A send on Run's errch: it panics when the channel is closed and waits
\* while the buffer is full.
CanSendErrchSmall == errchClosed \/ Len(errch) + 1 < ErrchCap

CanSendErrch == errchClosed \/ Len(errch) < ErrchCap

SendErrch(e) ==
    /\ CanSendErrch
    /\ errch' = IF errchClosed THEN errch ELSE Append(errch, e)
    /\ panicked' = errchClosed
    /\ UNCHANGED <<errchClosed, exit>>

\* The select of SyncToCodespace: the send is taken when a receiver waits or
\* the buffer has room, and the default branch otherwise.
SyncToCodespaceBlocking(receiverWaiting, len) ==
    IF receiverWaiting THEN "handoff"
    ELSE IF len < SignalCap THEN "queued"
    ELSE "blocked"

SyncToCodespace(receiverWaiting, len) ==
    IF receiverWaiting THEN "handoff"
    ELSE IF len < SignalCap THEN "queued"
    ELSE "dropped"

\* What a transfer process can end with: it is killed once ctx is done.
XferOutcomes == IF ctxDone THEN {"killed"} ELSE {"ok", "fail"}

\* The arguments of syncer.sync that its tail looks at: the destination and
\* deleteFiles. Sync's loop calls sync(ctx, localDir, codespaceDir, excludes,
\* true); SyncToLocal calls sync(ctx, codespaceDir, localDir, excludes,
\* deleteFiles).
SyncArgs == [dest |-> "codespaceDir", deleteFiles |-> TRUE]
SyncToLocalArgs(del) == [dest |-> "localDir", deleteFiles |-> del]

\* The syncType sync picks after cmd.Run: syncTypeCodespace, replaced when
\* the destination is localDir by syncTypeLocal or, with deleteFiles,
\* syncTypeLocalWithDeletion.
EventTagNoDeletion(args) == IF args.dest = "localDir" THEN "local" ELSE "codespace"
EventTag(args) ==
    IF args.dest = "localDir"
    THEN IF args.deleteFiles THEN "localDel" ELSE "local"
    ELSE "codespace"

\* What sync offers on syncEvent when its transfer process ended with o: it
\* returns before the offer when cmd.Run gave an error.
OfferAlways(o, args) == EventTag(args)
Offer(o, args) == IF o = "ok" THEN EventTag(args) ELSE "none"

\* The syncer newSyncer builds from the readiness signal: its port is
\* conn.Port and its codespaceDir starts with conn.Username.
NewSyncerDefault(c) == [user |-> <<"codespace">>, port |-> 22]
NewSyncer(c) == [user |-> c.user, port |-> c.port]

\* The transfer initialSync makes: InitialSync (the clone) when the workspace
\* directory does not exist, SyncToLocal(ctx, deleteFiles) when it does.
initialSyncAlwaysRefresh(exists, del) == IF del THEN "localDel" ELSE "local"
initialSync(exists, del) ==
    IF ~exists THEN "clone"
    ELSE IF del THEN "localDel" ELSE "local"

\* The arguments of the inbound transfer x Run waits for.
MainXferArgs(x) == SyncToLocalArgs(x = "localDel")

----------------------------------------------------------------------------
(* writer.Write: the parser of the tunnel process's output *)

\* A chunk of output is a sequence of symbols. The marker text is one symbol
\* (it is never cut by a chunk boundary); a space, an at sign and a decimal
\* digit are one symbol each; any other symbol is a run of other bytes.
Marker == "Connection Details:"

DigitVal ==
    [d \in {"0", "1", "2", "3", "4", "5", "6", "7", "8", "9"} |->
        CASE d = "0" -> 0 [] d = "1" -> 1 [] d = "2" -> 2 [] d = "3" -> 3
          [] d = "4" -> 4 [] d = "5" -> 5 [] d = "6" -> 6 [] d = "7" -> 7
          [] d = "8" -> 8 [] d = "9" -> 9]

\* bytes.HasPrefix(p, []byte("Connection Details")).
HasPrefix(p) == Len(p) > 0 /\ p[1] = Marker

\* The bytes of p, with the space inside the marker text made visible.
RECURSIVE Bytes(_)
Bytes(p) ==
    IF p = <<>> THEN <<>>
    ELSE (IF Head(p) = Marker THEN <<"Connection", " ", "Details:">> ELSE <<Head(p)>>)
         \o Bytes(Tail(p))

\* bytes.Split(s, sep): the parts of s between the separators, the empty
\* ones included.
RECURSIVE Split(_, _)
Split(s, sep) ==
    IF \A i \in 1..Len(s) : s[i] # sep THEN <<s>>
    ELSE LET i == CHOOSE k \in 1..Len(s) : s[k] = sep /\ \A j \in 1..(k - 1) : s[j] # sep
         IN <<SubSeq(s, 1, i - 1)>> \o Split(SubSeq(s, i + 1, Len(s)), sep)

\* strconv.ParseInt(string(tok), 10, 0) on a token without a sign: an error
\* unless the token is a non-empty run of digits.
RECURSIVE ParseDigits(_, _)
ParseDigits(tok, acc) ==
    IF tok = <<>> THEN acc
    ELSE ParseDigits(Tail(tok), 10 * acc + DigitVal[Head(tok)])

ParseIntNoCheck(tok) ==
    IF \A i \in 1..Len(tok) : tok[i] \in DOMAIN DigitVal
    THEN [ok |-> TRUE, val |-> ParseDigits(tok, 0)]
    ELSE [ok |-> TRUE, val |-> 0]

ParseInt(tok) ==
    IF tok # <<>> /\ \A i \in 1..Len(tok) : tok[i] \in DOMAIN DigitVal
    THEN [ok |-> TRUE, val |-> ParseDigits(tok, 0)]
    ELSE [ok |-> FALSE, val |-> 0]

\* What Write does with the chunk p: it ignores it, it sends an error on
\* w.errch, or it sends the parameters on w.ready and closes w.ready.
Write(p) ==
    IF HasPrefix(p)
    THEN LET parts == Split(Bytes(p), " ") IN
         IF Len(parts) < 6 THEN [kind |-> "err", conn |-> NoConn]
         ELSE LET uhost == Split(parts[4], "@") IN
              IF Len(uhost) # 2 THEN [kind |-> "err", conn |-> NoConn]
              ELSE LET port == ParseInt(parts[6]) IN
                   IF ~port.ok THEN [kind |-> "err", conn |-> NoConn]
                   ELSE [kind |-> "conn", conn |-> [user |-> uhost[1], port |-> port.val]]
    ELSE [kind |-> "ignore", conn |-> NoConn]

\* The effect of Write(p) on the channels of Listen: the send on w.errch
\* waits while that channel is full, and the send on w.ready panics once
\* w.ready is closed.
WriteStep(p) ==
    LET r == Write(p) IN
    CASE r.kind = "ignore" ->
            UNCHANGED <<wch, wchClosed, lerrch, panicked, failed>>
      [] r.kind = "err" ->
            /\ Len(lerrch) < ListenErrchCap
            /\ lerrch' = Append(lerrch, "parse")
            /\ failed' = TRUE
            /\ UNCHANGED <<wch, wchClosed, panicked>>
      [] r.kind = "conn" ->
            /\ wch' = IF wchClosed THEN wch ELSE r.conn
            /\ wchClosed' = TRUE
            /\ panicked' = wchClosed
            /\ UNCHANGED <<lerrch, failed>>

\* The banner gh prints, and what the tunnel process writes in one chunk in
\* a session: the banner, or a banner cut short.
Banner ==
    <<Marker, " ", "ssh", " ", "codespace", "@", "localhost", " ", "[-p", " ",
      "2", "2", "2", "2", " ", "...]">>

ProcOutputs == {Banner, SubSeq(Banner, 1, 7)}

----------------------------------------------------------------------------
Init ==
    /\ mainPc = "start"
    /\ runErr = "none"
    /\ exitCase = "none"
    /\ mainXfer = "none"
    /\ conn = NoConn
    /\ quitHandled = FALSE
    /\ ctx = "live"
    /\ sshCtxErr = "none"
    /\ errch = <<>>
    /\ errchClosed = FALSE
    /\ panicked = FALSE
    /\ exit = 0
    /\ listenPc = "idle"
    /\ procState = "none"
    /\ procKilled = FALSE
    /\ bannerSeen = FALSE
    /\ lerrch = <<>>
    /\ wch = NoConn
    /\ wchClosed = FALSE
    /\ readyPc = "idle"
    /\ probed = FALSE
    /\ syncPc = "idle"
    /\ sigLen = 0
    /\ tickPending = FALSE
    /\ owed = FALSE
    /\ intervalCalls = 0
    /\ intervalXfers = 0
    /\ lastEvent = "none"
    /\ watchPc = "idle"
    /\ failed = FALSE
    /\ chunks = <<>>
    /\ pos = 0
    /\ syncerConn = NoConn
    /\ workspaceExists = FALSE
    /\ deleteFiles = FALSE
    /\ offered = "none"
    /\ fsTree = <<>>
    /\ excludes = {}
    /\ includes = {}
    /\ walked = FALSE
    /\ watchPaths = {}

----------------------------------------------------------------------------
(* App.Run *)

\* Run returns err through branch c; the deferred calls registered so far
\* run next, from the position first.
ReturnNil(err, c, first) ==
    /\ mainPc' = first
    /\ runErr' = "nil"
    /\ exitCase' = c

Return(err, c, first) ==
    /\ mainPc' = first
    /\ runErr' = err
    /\ exitCase' = c

\* getOrChooseCodespace and the workspace check.
RunChoose ==
    /\ ~panicked
    /\ mainPc = "start"
    /\ \E o \in {"ok", "interrupt", "error", "noWorkspace"} :
        /\ CASE o = "ok" -> /\ mainPc' = "newServer"
                            /\ UNCHANGED <<runErr, exitCase>>
             [] o = "interrupt" -> Return("nil", "interrupt", "deferCloseErrch")
             [] o = "error" -> Return("choose", "choose", "deferCloseErrch")
             [] o = "noWorkspace" -> Return("workspace", "choose", "deferCloseErrch")
        /\ failed' = (failed \/ o \in {"error", "noWorkspace"})
    /\ UNCHANGED <<mainXfer, conn, quitHandled>>
    /\ UNCHANGED <<ctxVars, chanVars, tunnelVars, syncVars, watchPc>>
    /\ UNCHANGED <<writerVars, walkVars>>
    /\ UNCHANGED setupVars
    /\ offered' = "none"

\* newSSHServer, the deferred server.Close, and go server.Listen(ctx).
RunNewServer ==
    /\ ~panicked
    /\ mainPc = "newServer"
    /\ mainPc' = "waitReady"
    /\ listenPc' = "start"
    /\ UNCHANGED <<runErr, exitCase, mainXfer, conn, quitHandled>>
    /\ UNCHANGED <<procState, procKilled, bannerSeen, lerrch, wch, wchClosed, readyPc, probed>>
    /\ UNCHANGED <<ctxVars, chanVars, syncVars, watchPc, failed>>
    /\ UNCHANGED <<writerVars, walkVars>>
    /\ UNCHANGED setupVars
    /\ offered' = "none"

\* What Run makes of the error of waitForSSHServer when sshServerCtx has
\* ended with e: the deadline is told apart from everything else.
ReadyErrGeneric(e) == "readyCanceled"

ReadyErr(e) == IF e = "deadline" THEN "timeout" ELSE "readyCanceled"

\* waitForSSHServer: a failure, the end of sshServerCtx, or readiness (the
\* receive that completes the readiness goroutine's s.ready <- conn).
RunWaitReady ==
    /\ ~panicked
    /\ mainPc = "waitReady"
    /\ \/ /\ errch # <<>>
          /\ Return(Head(errch), "errch", "deferServerClose")
          /\ errch' = Tail(errch)
          /\ UNCHANGED <<conn, readyPc>>
       \/ /\ sshCtxErr # "none"
          /\ Return(ReadyErr(sshCtxErr), "readyCtx", "deferServerClose")
          /\ UNCHANGED <<conn, readyPc, errch>>
       \/ /\ readyPc = "publish"
          /\ conn' = wch
          /\ readyPc' = "done"
          /\ mainPc' = "setupSyncer"
          /\ UNCHANGED <<runErr, exitCase, errch>>
    /\ UNCHANGED <<mainXfer, quitHandled>>
    /\ UNCHANGED <<errchClosed, panicked, exit>>
    /\ UNCHANGED <<listenPc, procState, procKilled, bannerSeen, lerrch, wch, wchClosed, probed>>
    /\ UNCHANGED <<ctxVars, syncVars, watchPc, failed>>
    /\ UNCHANGED <<writerVars, walkVars>>
    /\ UNCHANGED setupVars
    /\ offered' = "none"

\* The deadline of sshServerCtx passes.
ReadyTimeout ==
    /\ ~panicked
    /\ mainPc = "waitReady"
    /\ sshCtxErr = "none"
    /\ sshCtxErr' = "deadline"
    /\ failed' = TRUE
    /\ UNCHANGED <<ctx, mainVars, chanVars, tunnelVars, syncVars, watchPc>>
    /\ UNCHANGED <<writerVars, walkVars>>
    /\ UNCHANGED setupVars
    /\ offered' = "none"

\* The caller of Run cancels the context it passed.
ParentCancel ==
    /\ ~panicked
    /\ ctx = "live"
    /\ mainPc # "done"
    /\ ctx' = "parent"
    /\ sshCtxErr' = IF sshCtxErr = "none" THEN "canceled" ELSE sshCtxErr
    /\ UNCHANGED <<mainVars, chanVars, tunnelVars, syncVars, watchPc, failed>>
    /\ UNCHANGED <<writerVars, walkVars>>
    /\ UNCHANGED setupVars
    /\ offered' = "none"

\* setupSyncer and go a.syncer.Sync(ctx).
RunSetupSyncer ==
    /\ ~panicked
    /\ mainPc = "setupSyncer"
    /\ \/ /\ mainPc' = "initialSync"
          /\ syncPc' = "select"
          /\ syncerConn' = NewSyncer(conn)
          /\ \E e \in BOOLEAN, d \in BOOLEAN :
                /\ workspaceExists' = e
                /\ deleteFiles' = d
          /\ UNCHANGED <<runErr, exitCase, failed>>
       \/ /\ Return("setupSyncer", "setup", "deferServerClose")
          /\ failed' = TRUE
          /\ UNCHANGED <<syncPc, setupVars>>
    /\ UNCHANGED <<mainXfer, conn, quitHandled>>
    /\ UNCHANGED <<sigLen, tickPending, owed, intervalCalls, intervalXfers, lastEvent>>
    /\ UNCHANGED <<ctxVars, chanVars, tunnelVars, watchPc>>
    /\ UNCHANGED <<writerVars, walkVars>>
    /\ offered' = "none"

\* initialSync starts its transfer: InitialSync when the workspace does not
\* exist, SyncToLocal with the delete option otherwise.
RunInitialSync ==
    /\ ~panicked
    /\ mainPc = "initialSync"
    /\ mainXfer' = initialSync(workspaceExists, deleteFiles)
    /\ mainPc' = "initXfer"
    /\ workspaceExists' = FALSE
    /\ deleteFiles' = FALSE
    /\ UNCHANGED <<runErr, exitCase, conn, quitHandled>>
    /\ UNCHANGED <<ctxVars, chanVars, tunnelVars, syncVars, watchPc, failed>>
    /\ UNCHANGED <<writerVars, walkVars>>
    /\ UNCHANGED syncerConn
    /\ offered' = "none"

\* The transfer Run waits for ends (cmd.Run returns in syncer.sync). After a
\* success sync offers the syncType on syncEvent without blocking; the only
\* receiver of syncEvent is Run's dispatch loop, which is not receiving
\* while Run is in this call, so the offer is dropped.
MainXferDone ==
    /\ ~panicked
    /\ mainPc \in {"initXfer", "keyXfer"}
    /\ \E o \in XferOutcomes :
        /\ IF o = "ok"
           THEN /\ mainPc' = IF mainPc = "initXfer" THEN "newWatcher" ELSE "loop"
                /\ UNCHANGED <<runErr, exitCase>>
           ELSE Return(IF mainPc = "initXfer" THEN "initialSync" ELSE "processKey",
                       IF mainPc = "initXfer" THEN "initialSync" ELSE "keyProc",
                       "deferServerClose")
        /\ offered' = IF mainXfer = "clone" THEN "none"
                              ELSE Offer(o, MainXferArgs(mainXfer))
        /\ failed' = (failed \/ o = "fail")
    /\ mainXfer' = "none"
    /\ UNCHANGED <<conn, quitHandled>>
    /\ UNCHANGED <<ctxVars, chanVars, tunnelVars, syncVars, watchPc>>
    /\ UNCHANGED <<writerVars, walkVars>>
    /\ UNCHANGED setupVars

\* newWatcher and go watcher.Watch(ctx).
RunNewWatcher ==
    /\ ~panicked
    /\ mainPc = "newWatcher"
    /\ \/ /\ mainPc' = "getKeys"
          /\ watchPc' = "select"
          /\ UNCHANGED <<runErr, exitCase, failed>>
       \/ /\ Return("newWatcher", "setup", "deferServerClose")
          /\ failed' = TRUE
          /\ UNCHANGED watchPc
    /\ UNCHANGED <<mainXfer, conn, quitHandled>>
    /\ UNCHANGED <<ctxVars, chanVars, tunnelVars, syncVars>>
    /\ UNCHANGED <<writerVars, walkVars>>
    /\ UNCHANGED setupVars
    /\ offered' = "none"

\* keyboard.GetKeys(1).
RunGetKeys ==
    /\ ~panicked
    /\ mainPc = "getKeys"
    /\ \/ /\ mainPc' = "loop"
          /\ UNCHANGED <<runErr, exitCase, failed>>
       \/ /\ Return("getKeys", "setup", "deferServerClose")
          /\ failed' = TRUE
    /\ UNCHANGED <<mainXfer, conn, quitHandled>>
    /\ UNCHANGED <<ctxVars, chanVars, tunnelVars, syncVars, watchPc>>
    /\ UNCHANGED <<writerVars, walkVars>>
    /\ UNCHANGED setupVars
    /\ offered' = "none"

\* The dispatch loop's select: ctx is done, a failure, or the exit signal.
\* (The syncEvent case is in SyncXferDone, the key event case in RunLoopKey.)
RunLoop ==
    /\ ~panicked
    /\ mainPc = "loop"
    /\ \/ /\ ctxDone
          /\ Return("canceled", "ctx", "deferServerClose")
          /\ UNCHANGED <<errch, exit>>
       \/ /\ errch # <<>>
          /\ Return(Head(errch), "errch", "deferServerClose")
          /\ errch' = Tail(errch)
          /\ UNCHANGED exit
       \/ /\ exit > 0
          /\ exit' = exit - 1
          /\ Return("nil", "exit", "deferServerClose")
          /\ UNCHANGED errch
    /\ UNCHANGED <<mainXfer, conn, quitHandled, errchClosed, panicked>>
    /\ UNCHANGED <<ctxVars, tunnelVars, syncVars, watchPc, failed>>
    /\ UNCHANGED <<writerVars, walkVars>>
    /\ UNCHANGED setupVars
    /\ offered' = "none"

\* The transfer processKeyEvent runs for the key k: SyncToLocal, with
\* deletion for 'd'.
KeyXferNoDelete(k) == "local"

KeyXfer(k) == IF k = "d" THEN "localDel" ELSE "local"

\* The dispatch loop's select takes a key event and processKeyEvent runs up
\* to its first wait: a failed event ends Run, a quit key goes on to send on
\* exit, Enter prints a line, 's' and 'd' start SyncToLocal's transfer.
RunLoopKey ==
    /\ ~panicked
    /\ mainPc = "loop"
    /\ \E k \in Keys :
        \/ /\ k = "err"
           /\ Return("keyEvent", "keyErr", "deferServerClose")
           /\ failed' = TRUE
           /\ UNCHANGED mainXfer
        \/ /\ IsQuitKey(k)
           /\ mainPc' = "sendExit"
           /\ UNCHANGED <<runErr, exitCase, mainXfer, failed>>
        \/ /\ k = "enter"
           /\ Return("processKey", "keyProc", "deferServerClose")
           /\ failed' = TRUE
           /\ UNCHANGED mainXfer
        \/ /\ k \in {"s", "d"}
           /\ mainPc' = "keyXfer"
           /\ mainXfer' = KeyXfer(k)
           /\ UNCHANGED <<runErr, exitCase, failed>>
    /\ UNCHANGED <<conn, quitHandled>>
    /\ UNCHANGED <<ctxVars, chanVars, tunnelVars, syncVars, watchPc>>
    /\ UNCHANGED <<writerVars, walkVars>>
    /\ UNCHANGED setupVars
    /\ offered' = "none"

\* processKeyEvent for a quit key: exit <- struct{}{}, which waits while the
\* channel is full.
ProcessKeyEventExit ==
    /\ ~panicked
    /\ mainPc = "sendExit"
    /\ exit < ExitCap
    /\ exit' = exit + 1
    /\ quitHandled' = TRUE
    /\ mainPc' = "loop"
    /\ UNCHANGED <<runErr, exitCase, mainXfer, conn>>
    /\ UNCHANGED <<errch, errchClosed, panicked>>
    /\ UNCHANGED <<ctxVars, tunnelVars, syncVars, watchPc, failed>>
    /\ UNCHANGED <<writerVars, walkVars>>
    /\ UNCHANGED setupVars
    /\ offered' = "none"

\* showSync prints the status line of the event the loop received.
RunShowSync ==
    /\ ~panicked
    /\ mainPc = "showSync"
    /\ lastEvent' = "none"
    /\ \/ /\ mainPc' = "loop"
          /\ UNCHANGED <<runErr, exitCase, failed>>
       \/ /\ Return("showSync", "showSync", "deferServerClose")
          /\ failed' = TRUE
    /\ UNCHANGED <<mainXfer, conn, quitHandled>>
    /\ UNCHANGED <<syncPc, sigLen, tickPending, owed, intervalCalls, intervalXfers>>
    /\ UNCHANGED <<ctxVars, chanVars, tunnelVars, watchPc>>
    /\ UNCHANGED <<writerVars, walkVars>>
    /\ UNCHANGED setupVars
    /\ offered' = "none"

\* The deferred function around server.Close: the error of Close becomes
\* Run's error when Run is returning nil.
CloseFoldAlways(err, closeErr) == IF closeErr # "nil" THEN "closeFailed" ELSE err

CloseFold(err, closeErr) ==
    IF closeErr # "nil" /\ err = "nil" THEN "closeFailed" ELSE err

\* The deferred server.Close: Close reads s.ghProcess, which the Listen
\* goroutine writes without synchronisation, and calls its Cancel, which
\* kills the process: a nil Process is dereferenced, a finished one gives
\* an error.
RunDeferServerClose ==
    /\ ~panicked
    /\ mainPc = "deferServerClose"
    /\ mainPc' = "deferCloseErrch"
    /\ \/ /\ procState = "none"
          /\ UNCHANGED <<runErr, procKilled, panicked>>
       \/ /\ procState \in {"created", "startFailed"}
          /\ panicked' = TRUE
          /\ UNCHANGED <<runErr, procKilled>>
       \/ /\ procState = "running"
          /\ procKilled' = TRUE
          /\ UNCHANGED <<runErr, panicked>>
       \/ /\ procState = "exited"
          /\ runErr' = CloseFold(runErr, "processDone")
          /\ UNCHANGED <<procKilled, panicked>>
    /\ UNCHANGED <<exitCase, mainXfer, conn, quitHandled>>
    /\ UNCHANGED <<errch, errchClosed, exit>>
    /\ UNCHANGED <<listenPc, procState, bannerSeen, lerrch, wch, wchClosed, readyPc, probed>>
    /\ UNCHANGED <<ctxVars, syncVars, watchPc, failed>>
    /\ UNCHANGED <<writerVars, walkVars>>
    /\ UNCHANGED setupVars
    /\ offered' = "none"

\* The deferred close(errch).
RunDeferCloseErrch ==
    /\ ~panicked
    /\ mainPc = "deferCloseErrch"
    /\ mainPc' = "deferCancel"
    /\ errchClosed' = TRUE
    /\ UNCHANGED <<runErr, exitCase, mainXfer, conn, quitHandled>>
    /\ UNCHANGED <<errch, panicked, exit>>
    /\ UNCHANGED <<ctxVars, tunnelVars, syncVars, watchPc, failed>>
    /\ UNCHANGED <<writerVars, walkVars>>
    /\ UNCHANGED setupVars
    /\ offered' = "none"

\* The deferred cancel().
RunDeferCancel ==
    /\ ~panicked
    /\ mainPc = "deferCancel"
    /\ mainPc' = "done"
    /\ ctx' = IF ctx = "live" THEN "deferred" ELSE ctx
    /\ sshCtxErr' = IF sshCtxErr = "none" THEN "canceled" ELSE sshCtxErr
    /\ UNCHANGED <<runErr, exitCase, mainXfer, conn, quitHandled>>
    /\ UNCHANGED <<chanVars, tunnelVars, syncVars, watchPc, failed>>
    /\ UNCHANGED <<writerVars, walkVars>>
    /\ UNCHANGED setupVars
    /\ offered' = "none"

----------------------------------------------------------------------------
(* sshServer.Listen, its readiness goroutine and the gh process *)

SshErr(c) ==
    CASE c = "parse" -> "ssh:parse"
      [] c = "startErr" -> "ssh:startErr"
      [] c = "exitErr" -> "ssh:exitErr"
      [] c = "killed" -> "ssh:killed"

\* Listen up to its select: the command is built and stored in s.ghProcess
\* and the two goroutines are started.
ListenStart ==
    /\ ~panicked
    /\ listenPc = "start"
    /\ listenPc' = "select"
    /\ procState' = "created"
    /\ readyPc' = "select"
    /\ UNCHANGED <<procKilled, bannerSeen, lerrch, wch, wchClosed, probed>>
    /\ UNCHANGED <<mainVars, ctxVars, chanVars, syncVars, watchPc, failed>>
    /\ UNCHANGED <<writerVars, walkVars>>
    /\ UNCHANGED setupVars
    /\ offered' = "none"

\* errch <- s.ghProcess.Run(): the process starts, or Run fails at once
\* (with ctx's error when ctx is done already).
ProcRun ==
    /\ ~panicked
    /\ procState = "created"
    /\ \/ /\ ~ctxDone
          /\ procState' = "running"
          /\ UNCHANGED <<lerrch, failed>>
       \/ /\ Len(lerrch) < ListenErrchCap
          /\ procState' = "startFailed"
          /\ lerrch' = Append(lerrch, IF ctxDone THEN "killed" ELSE "startErr")
          /\ failed' = (failed \/ ~ctxDone)
    /\ UNCHANGED <<listenPc, procKilled, bannerSeen, wch, wchClosed, readyPc, probed>>
    /\ UNCHANGED <<mainVars, ctxVars, chanVars, syncVars, watchPc>>
    /\ UNCHANGED <<writerVars, walkVars>>
    /\ UNCHANGED setupVars
    /\ offered' = "none"

\* The process writes a banner and writer.Write is called with it: well
\* formed, the parameters go to wch; malformed, an error goes to Listen's
\* errch.
ProcBanner ==
    /\ ~panicked
    /\ procState = "running"
    /\ ~bannerSeen
    /\ bannerSeen' = TRUE
    /\ \E p \in ProcOutputs : WriteStep(p)
    /\ UNCHANGED <<listenPc, procState, procKilled, readyPc, probed>>
    /\ UNCHANGED <<errch, errchClosed, exit>>
    /\ UNCHANGED <<mainVars, ctxVars, syncVars, watchPc>>
    /\ UNCHANGED <<writerVars, walkVars>>
    /\ UNCHANGED setupVars
    /\ offered' = "none"

\* The process exits by itself, with status zero or not.
ProcExitSelf ==
    /\ ~panicked
    /\ procState = "running"
    /\ ~procKilled /\ ~ctxDone
    /\ Len(lerrch) < ListenErrchCap
    /\ procState' = "exited"
    /\ \E r \in {"exit0", "exitErr"} : lerrch' = Append(lerrch, r)
    /\ failed' = TRUE
    /\ UNCHANGED <<listenPc, procKilled, bannerSeen, wch, wchClosed, readyPc, probed>>
    /\ UNCHANGED <<mainVars, ctxVars, chanVars, syncVars, watchPc>>
    /\ UNCHANGED <<writerVars, walkVars>>
    /\ UNCHANGED setupVars
    /\ offered' = "none"

\* The process is killed, by Close or by the end of ctx.
ProcExitKilled ==
    /\ ~panicked
    /\ procState = "running"
    /\ procKilled \/ ctxDone
    /\ Len(lerrch) < ListenErrchCap
    /\ procState' = "exited"
    /\ lerrch' = Append(lerrch, "killed")
    /\ UNCHANGED <<listenPc, procKilled, bannerSeen, wch, wchClosed, readyPc, probed>>
    /\ UNCHANGED <<mainVars, ctxVars, chanVars, syncVars, watchPc, failed>>
    /\ UNCHANGED <<writerVars, walkVars>>
    /\ UNCHANGED setupVars
    /\ offered' = "none"

\* Listen's select finds ctx done: Listen returns nil.
ListenCtxDone ==
    /\ ~panicked
    /\ listenPc = "select"
    /\ ctxDone
    /\ listenPc' = "done"
    /\ UNCHANGED <<procState, procKilled, bannerSeen, lerrch, wch, wchClosed, readyPc, probed>>
    /\ UNCHANGED <<mainVars, ctxVars, chanVars, syncVars, watchPc, failed>>
    /\ UNCHANGED <<writerVars, walkVars>>
    /\ UNCHANGED setupVars
    /\ offered' = "none"

\* Listen's select takes a value from its errch and returns it; Run's
\* goroutine around Listen sends a non-nil one on Run's errch.
ListenErr ==
    /\ ~panicked
    /\ listenPc = "select"
    /\ lerrch # <<>>
    /\ lerrch' = Tail(lerrch)
    /\ listenPc' = "done"
    /\ IF Head(lerrch) = "exit0"
       THEN UNCHANGED chanVars
       ELSE SendErrch(SshErr(Head(lerrch)))
    /\ UNCHANGED <<procState, procKilled, bannerSeen, wch, wchClosed, readyPc, probed>>
    /\ UNCHANGED <<mainVars, ctxVars, syncVars, watchPc, failed>>
    /\ UNCHANGED <<writerVars, walkVars>>
    /\ UNCHANGED setupVars
    /\ offered' = "none"

\* The readiness goroutine's select: ctx is done, or the parameters arrive.
ReadySelect ==
    /\ ~panicked
    /\ readyPc = "select"
    /\ \/ /\ ctxDone
          /\ readyPc' = "done"
       \/ /\ wch # NoConn
          /\ readyPc' = "probe"
    /\ UNCHANGED <<listenPc, procState, procKilled, bannerSeen, lerrch, wch, wchClosed, probed>>
    /\ UNCHANGED <<mainVars, ctxVars, chanVars, syncVars, watchPc, failed>>
    /\ UNCHANGED <<writerVars, walkVars>>
    /\ UNCHANGED setupVars
    /\ offered' = "none"

\* ensureReady: a dial to the port succeeds and ensureReady returns nil; the
\* goroutine goes on to s.ready <- conn.
ReadyProbeDial ==
    /\ ~panicked
    /\ readyPc = "probe"
    /\ ~ctxDone
    /\ probed' = TRUE
    /\ readyPc' = "publish"
    /\ UNCHANGED <<listenPc, procState, procKilled, bannerSeen, lerrch, wch, wchClosed>>
    /\ UNCHANGED <<mainVars, ctxVars, chanVars, syncVars, watchPc, failed>>
    /\ UNCHANGED <<writerVars, walkVars>>
    /\ UNCHANGED setupVars
    /\ offered' = "none"

\* ensureReady: ctx is done and ensureReady returns nil; the goroutine goes
\* on to s.ready <- conn.
ReadyProbeCancelled ==
    /\ ~panicked
    /\ readyPc = "probe"
    /\ ctxDone
    /\ readyPc' = "publish"
    /\ UNCHANGED <<listenPc, procState, procKilled, bannerSeen, lerrch, wch, wchClosed, probed>>
    /\ UNCHANGED <<mainVars, ctxVars, chanVars, syncVars, watchPc, failed>>
    /\ UNCHANGED <<writerVars, walkVars>>
    /\ UNCHANGED setupVars
    /\ offered' = "none"

----------------------------------------------------------------------------
(* syncer.Sync *)

\* The ticker of Sync fires: a debounce interval ends. A tick that finds
\* ticker.C full is dropped.
Tick ==
    /\ ~panicked
    /\ syncPc \in {"select", "recv", "xfer"}
    /\ tickPending' = TRUE
    /\ intervalCalls' = 0
    /\ intervalXfers' = 0
    /\ UNCHANGED <<syncPc, sigLen, owed, lastEvent>>
    /\ UNCHANGED <<mainVars, ctxVars, chanVars, tunnelVars, watchPc, failed>>
    /\ UNCHANGED <<writerVars, walkVars>>
    /\ UNCHANGED setupVars
    /\ offered' = "none"

\* Sync's select finds ctx done: Sync returns nil.
SyncCtxDone ==
    /\ ~panicked
    /\ syncPc = "select"
    /\ ctxDone
    /\ syncPc' = "done"
    /\ UNCHANGED <<sigLen, tickPending, owed, intervalCalls, intervalXfers, lastEvent>>
    /\ UNCHANGED <<mainVars, ctxVars, chanVars, tunnelVars, watchPc, failed>>
    /\ UNCHANGED <<writerVars, walkVars>>
    /\ UNCHANGED setupVars
    /\ offered' = "none"

\* The tick branch of Sync's select without the receive that waits for a
\* signal: a transfer on every tick.
SyncTickNoWait ==
    /\ ~panicked
    /\ syncPc = "select"
    /\ tickPending
    /\ tickPending' = FALSE
    /\ syncPc' = "xfer"
    /\ sigLen' = IF sigLen > 0 THEN sigLen - 1 ELSE sigLen
    /\ owed' = FALSE
    /\ intervalXfers' = Inc(intervalXfers)
    /\ UNCHANGED <<intervalCalls, lastEvent>>
    /\ UNCHANGED <<mainVars, ctxVars, chanVars, tunnelVars, watchPc, failed>>
    /\ UNCHANGED <<writerVars, walkVars>>
    /\ UNCHANGED setupVars
    /\ offered' = "none"

\* Sync's select takes a tick and Sync goes on to <-s.syncToCodespace (and
\* from there to the transfer when a signal is buffered).
SyncTick ==
    /\ ~panicked
    /\ syncPc = "select"
    /\ tickPending
    /\ tickPending' = FALSE
    /\ IF sigLen > 0
       THEN /\ sigLen' = sigLen - 1
            /\ syncPc' = "xfer"
            /\ owed' = FALSE
            /\ intervalXfers' = Inc(intervalXfers)
       ELSE /\ syncPc' = "recv"
            /\ UNCHANGED <<sigLen, owed, intervalXfers>>
    /\ UNCHANGED <<intervalCalls, lastEvent>>
    /\ UNCHANGED <<mainVars, ctxVars, chanVars, tunnelVars, watchPc, failed>>
    /\ UNCHANGED <<writerVars, walkVars>>
    /\ UNCHANGED setupVars
    /\ offered' = "none"

SyncErr(o) == IF o = "killed" THEN "sync:killed" ELSE "sync:fail"

\* The outbound transfer ends (cmd.Run returns in syncer.sync). After a
\* success sync offers syncTypeCodespace on syncEvent without blocking: the
\* dispatch loop takes it when it is receiving, and it is dropped otherwise.
\* After a failure Sync returns the error and Run's goroutine around Sync
\* sends it on errch.
SyncXferDone ==
    /\ ~panicked
    /\ syncPc = "xfer"
    /\ \E o \in XferOutcomes :
        /\ offered' = Offer(o, SyncArgs)
        /\ IF o = "ok"
           THEN /\ syncPc' = "select"
                /\ IF mainPc = "loop"
                   THEN /\ mainPc' = "showSync"
                        /\ lastEvent' = offered'
                   ELSE UNCHANGED <<mainPc, lastEvent>>
                /\ UNCHANGED chanVars
           ELSE /\ syncPc' = "done"
                /\ SendErrch(SyncErr(o))
                /\ UNCHANGED <<mainPc, lastEvent>>
        /\ failed' = (failed \/ o = "fail")
    /\ UNCHANGED <<runErr, exitCase, mainXfer, conn, quitHandled>>
    /\ UNCHANGED <<sigLen, tickPending, owed, intervalCalls, intervalXfers>>
    /\ UNCHANGED <<ctxVars, tunnelVars, watchPc>>
    /\ UNCHANGED <<writerVars, walkVars>>
    /\ UNCHANGED setupVars

----------------------------------------------------------------------------
(* watcher.Watch *)

\* Watch's select finds ctx done and returns ctx.Err(); Run's goroutine
\* around Watch sends it on errch.
WatchCtxDone ==
    /\ ~panicked
    /\ watchPc = "select"
    /\ ctxDone
    /\ watchPc' = "done"
    /\ SendErrch("watcher:canceled")
    /\ UNCHANGED <<mainVars, ctxVars, tunnelVars, syncVars, failed>>
    /\ UNCHANGED <<writerVars, walkVars>>
    /\ UNCHANGED setupVars
    /\ offered' = "none"

\* An error arrives on w.watcher.Errors: Watch returns it and Run's
\* goroutine around Watch sends it on errch.
WatchError ==
    /\ ~panicked
    /\ watchPc = "select"
    /\ watchPc' = "done"
    /\ SendErrch("watcher:error")
    /\ failed' = TRUE
    /\ UNCHANGED <<mainVars, ctxVars, tunnelVars, syncVars>>
    /\ UNCHANGED <<writerVars, walkVars>>
    /\ UNCHANGED setupVars
    /\ offered' = "none"

\* A filesystem event arrives on w.watcher.Events and Watch calls
\* SyncToCodespace: the signal is handed to a Sync that waits for it (which
\* starts the outbound transfer), buffered, or dropped.
WatchEvent ==
    /\ ~panicked
    /\ watchPc = "select"
    /\ LET r == SyncToCodespace(syncPc = "recv", sigLen) IN
        /\ r # "blocked"
        /\ CASE r = "handoff" -> /\ syncPc' = "xfer"
                                 /\ owed' = FALSE
                                 /\ intervalXfers' = Inc(intervalXfers)
                                 /\ UNCHANGED sigLen
             [] r = "queued" -> /\ sigLen' = sigLen + 1
                                /\ owed' = TRUE
                                /\ UNCHANGED <<syncPc, intervalXfers>>
             [] r = "dropped" -> /\ owed' = TRUE
                                 /\ UNCHANGED <<syncPc, sigLen, intervalXfers>>
    /\ intervalCalls' = Inc(intervalCalls)
    /\ UNCHANGED <<watchPc, tickPending, lastEvent>>
    /\ UNCHANGED <<mainVars, ctxVars, chanVars, tunnelVars, failed>>
    /\ UNCHANGED <<writerVars, walkVars>>
    /\ UNCHANGED setupVars
    /\ offered' = "none"

----------------------------------------------------------------------------
(* The specification *)

\* The steps Run takes by itself.
MainStep ==
    \/ RunChoose
    \/ RunNewServer
    \/ RunWaitReady
    \/ RunSetupSyncer
    \/ RunInitialSync
    \/ MainXferDone
    \/ RunNewWatcher
    \/ RunGetKeys
    \/ RunLoop
    \/ RunShowSync
    \/ ProcessKeyEventExit
    \/ RunDeferServerClose
    \/ RunDeferCloseErrch
    \/ RunDeferCancel

\* The steps of the goroutines, which wait for nothing outside the program.
TaskStep ==
    \/ ListenStart
    \/ ProcRun
    \/ ProcExitKilled
    \/ ListenCtxDone
    \/ ListenErr
    \/ ReadySelect
    \/ ReadyProbeCancelled
    \/ SyncCtxDone
    \/ SyncTick
    \/ SyncXferDone
    \/ WatchCtxDone

Next ==
    \/ RunChoose
    \/ RunNewServer
    \/ RunWaitReady
    \/ ReadyTimeout
    \/ ParentCancel
    \/ RunSetupSyncer
    \/ RunInitialSync
    \/ MainXferDone
    \/ RunNewWatcher
    \/ RunGetKeys
    \/ RunLoop
    \/ RunLoopKey
    \/ ProcessKeyEventExit
    \/ RunShowSync
    \/ RunDeferServerClose
    \/ RunDeferCloseErrch
    \/ RunDeferCancel
    \/ ListenStart
    \/ ProcRun
    \/ ProcBanner
    \/ ProcExitSelf
    \/ ProcExitKilled
    \/ ListenCtxDone
    \/ ListenErr
    \/ ReadySelect
    \/ ReadyProbeDial
    \/ ReadyProbeCancelled
    \/ Tick
    \/ SyncCtxDone
    \/ SyncTick
    \/ SyncXferDone
    \/ WatchCtxDone
    \/ WatchError
    \/ WatchEvent

Spec == Init /\ [][Next]_vars

\* The Go scheduler runs every goroutine that can take a step, a process
\* that was killed ends, and time passes (the ticker fires, the deadline of
\* the readiness wait arrives). The environment owes nothing: no key, no
\* filesystem event, no output of the tunnel process, no successful dial.
ListenStep == ListenStart \/ ListenCtxDone \/ ListenErr
ProcStep == ProcRun \/ ProcExitKilled
ReadyStep == ReadySelect \/ ReadyProbeCancelled
SyncStep == SyncCtxDone \/ SyncTick \/ SyncXferDone

Fairness ==
    /\ WF_vars(MainStep)
    /\ WF_vars(ListenStep)
    /\ WF_vars(ProcStep)
    /\ WF_vars(ReadyStep)
    /\ WF_vars(SyncStep)
    /\ WF_vars(WatchCtxDone)
    /\ WF_vars(Tick)
    /\ WF_vars(ReadyTimeout)

FairSpec == Spec /\ Fairness

\* Run alone is scheduled, and its dispatch loop, whose select chooses among
\* the ready cases at random, does not pass over a case that is ready again
\* and again for ever.
LoopFairness == WF_vars(MainStep) /\ SF_vars(RunLoop)

LoopFairSpec == Spec /\ LoopFairness

----------------------------------------------------------------------------
(* The writer on its own: Listen waits in its select, the tunnel process    *)
(* runs and writes a given output stream chunk by chunk.                    *)

RECURSIVE Flatten(_)
Flatten(cs) == IF cs = <<>> THEN <<>> ELSE Head(cs) \o Flatten(Tail(cs))

RECURSIVE Join(_)
Join(toks) ==
    IF Len(toks) = 1 THEN toks[1] ELSE toks[1] \o <<" ">> \o Join(Tail(toks))

Min(S) == CHOOSE k \in S : \A j \in S : k <= j

\* The stream s cut after the positions in cuts.
RECURSIVE SplitAt(_, _)
SplitAt(s, cuts) ==
    IF cuts = {} THEN <<s>>
    ELSE LET k == Min(cuts) IN
         <<SubSeq(s, 1, k)>>
             \o SplitAt(SubSeq(s, k + 1, Len(s)), {c - k : c \in cuts \ {k}})

\* Every way of writing the stream s in at most MaxChunks non-empty chunks.
Splittings(s) ==
    {SplitAt(s, cuts) : cuts \in {c \in SUBSET (1..(Len(s) - 1)) : Cardinality(c) < MaxChunks}}

\* Output streams that contain the banner.
BannerStreams == {Banner, <<"Welcome to your codespace\n">> \o Banner}

\* Chunks that start with the marker: the first n fields of a banner whose
\* user@host field is uh and whose port field is port.
UserHosts ==
    {<<"codespace", "@", "localhost">>, <<"codespace">>,
     <<"codespace", "@", "localhost", "@", "localhost">>}

Ports == {<<"2", "2", "2", "2">>, <<"5", "4", "3", "2", "1">>, <<"port">>, <<"2", "x">>, <<>>}

BannerOf(uh, port, n) ==
    Join(SubSeq(<<<<Marker>>, <<"ssh">>, uh, <<"[-p">>, port, <<"...]">>>>, 1, n))

BannerShapes == {BannerOf(uh, port, n) : uh \in UserHosts, port \in Ports, n \in 1..6}

WriterInputs ==
    UNION {Splittings(s) : s \in BannerStreams}
        \cup {<<b>> : b \in BannerShapes}
        \cup {<<b1, b2>> : b1 \in ProcOutputs, b2 \in BannerShapes}

WriterInit ==
    /\ mainPc = "waitReady"
    /\ runErr = "none"
    /\ exitCase = "none"
    /\ mainXfer = "none"
    /\ conn = NoConn
    /\ quitHandled = FALSE
    /\ ctx = "live"
    /\ sshCtxErr = "none"
    /\ errch = <<>>
    /\ errchClosed = FALSE
    /\ panicked = FALSE
    /\ exit = 0
    /\ listenPc = "select"
    /\ procState = "running"
    /\ procKilled = FALSE
    /\ bannerSeen = FALSE
    /\ lerrch = <<>>
    /\ wch = NoConn
    /\ wchClosed = FALSE
    /\ readyPc = "select"
    /\ probed = FALSE
    /\ syncPc = "idle"
    /\ sigLen = 0
    /\ tickPending = FALSE
    /\ owed = FALSE
    /\ intervalCalls = 0
    /\ intervalXfers = 0
    /\ lastEvent = "none"
    /\ watchPc = "idle"
    /\ failed = FALSE
    /\ chunks \in WriterInputs
    /\ pos = 0
    /\ syncerConn = NoConn
    /\ workspaceExists = FALSE
    /\ deleteFiles = FALSE
    /\ offered = "none"
    /\ fsTree = <<>>
    /\ excludes = {}
    /\ includes = {}
    /\ walked = FALSE
    /\ watchPaths = {}

\* The process writes the next chunk of the stream: writer.Write is called
\* with it.
WriterWrite ==
    /\ ~panicked
    /\ pos < Len(chunks)
    /\ pos' = pos + 1
    /\ WriteStep(chunks[pos + 1])
    /\ UNCHANGED <<listenPc, procState, procKilled, bannerSeen, readyPc, probed>>
    /\ UNCHANGED <<errch, errchClosed, exit, chunks>>
    /\ UNCHANGED <<mainVars, ctxVars, syncVars, watchPc>>
    /\ UNCHANGED <<setupVars, offered, walkVars>>

WriterNext ==
    \/ WriterWrite
    \/ ListenErr

WriterSpec == WriterInit /\ [][WriterNext]_vars

-----------------------------------------------------------------------------
(* newWatcher on its own: the walk of the local tree that registers the
   directories to watch. A path is the sequence of its components; the
   syncer's localDir is the root of the walk. *)

MaxExcludes == 2
MaxIncludes == 1

localDir == <<"w">>

\* The paths a tree can have below localDir.
TreePaths ==
    {<<"w", "a">>, <<"w", "a", ".git">>, <<"w", "a", "f">>,
     <<"w", "b">>, <<"w", ".git">>, <<"w", ".git", "o">>}

AllPaths == {localDir} \cup TreePaths

IsPrefix(a, b) == Len(a) <= Len(b) /\ SubSeq(b, 1, Len(a)) = a

Parent(p) == SubSeq(p, 1, Len(p) - 1)

\* The trees of the walk: localDir is a directory, and a path exists only
\* in a directory.
Trees ==
    {t \in [AllPaths -> {"none", "dir", "file"}] :
        /\ t[localDir] = "dir"
        /\ \A p \in TreePaths : t[p] # "none" => t[Parent(p)] = "dir"}

\* An exclude or watch entry: the components of the string and whether it
\* starts with the separator. EmptyEntry is the empty string.
Entry(abs, comps) == [abs |-> abs, comps |-> comps]
EmptyEntry == Entry(FALSE, <<>>)

ExcludeEntries ==
    {Entry(FALSE, <<".git">>), Entry(FALSE, <<"a">>), Entry(FALSE, <<"a", ".git">>),
     Entry(TRUE, <<"w", "b">>), Entry(TRUE, <<"w">>), Entry(TRUE, <<".git">>),
     EmptyEntry}

IncludeEntries ==
    {Entry(FALSE, <<"a">>), Entry(FALSE, <<"b">>), Entry(TRUE, <<"w", "a", ".git">>)}

\* excludedPathsSet: an entry that does not start with the separator is
\* joined to localDir, the others are kept as they are.
ExcludedPathsSetAsGiven(excl) == {e.comps : e \in excl}
ExcludedPathsSet(excl) ==
    {IF e.abs THEN e.comps ELSE localDir \o e.comps : e \in excl}

\* The restriction to the watch patterns, resolved as the excludes are: with
\* no pattern every directory is kept; with patterns a directory is kept
\* when it is the path of a pattern or an ancestor of one, and is pruned
\* otherwise.
IncludedAll(p, incl) == TRUE
Included(p, incl) ==
    \/ incl = {}
    \/ \E i \in ExcludedPathsSet(incl) : IsPrefix(p, i)

Children(p) == {q \in TreePaths : Parent(q) = p}

\* The walk function of filepath.Walk from path p: a path of the excluded
\* set is skipped, with all below it when it is a directory (SkipDir); a
\* directory is added to the watcher and walked into; a file is passed over.
RECURSIVE Walk(_, _, _, _)
Walk(tree, excl, incl, p) ==
    IF tree[p] = "none" \/ p \in ExcludedPathsSet(excl) THEN {}
    ELSE IF tree[p] = "file" \/ ~Included(p, incl) THEN {}
    ELSE {p} \cup UNION {Walk(tree, excl, incl, q) : q \in Children(p)}

WatcherInit ==
    /\ mainPc = "newWatcher"
    /\ runErr = "none"
    /\ exitCase = "none"
    /\ mainXfer = "none"
    /\ conn \in Conns
    /\ quitHandled = FALSE
    /\ ctx = "live"
    /\ sshCtxErr = "none"
    /\ errch = <<>>
    /\ errchClosed = FALSE
    /\ panicked = FALSE
    /\ exit = 0
    /\ listenPc = "select"
    /\ procState = "running"
    /\ procKilled = FALSE
    /\ bannerSeen = TRUE
    /\ lerrch = <<>>
    /\ wch = conn
    /\ wchClosed = TRUE
    /\ readyPc = "done"
    /\ probed = TRUE
    /\ syncPc = "select"
    /\ sigLen = 0
    /\ tickPending = FALSE
    /\ owed = FALSE
    /\ intervalCalls = 0
    /\ intervalXfers = 0
    /\ lastEvent = "none"
    /\ watchPc = "idle"
    /\ failed = FALSE
    /\ chunks = <<>>
    /\ pos = 0
    /\ syncerConn = conn
    /\ workspaceExists = FALSE
    /\ deleteFiles = FALSE
    /\ offered = "none"
    /\ fsTree \in Trees
    /\ excludes \in {x \in SUBSET ExcludeEntries : Cardinality(x) <= MaxExcludes}
    /\ includes \in {x \in SUBSET IncludeEntries : Cardinality(x) <= MaxIncludes}
    /\ walked = FALSE
    /\ watchPaths = {}

\* newWatcher builds the excluded set and walks localDir. Taking the first
\* byte of an empty exclude entry is an index out of range: the run panics
\* before the walk.
NewWatcherWalk ==
    /\ ~panicked
    /\ mainPc = "newWatcher"
    /\ ~walked
    /\ IF EmptyEntry \in excludes
       THEN /\ panicked' = TRUE
            /\ UNCHANGED <<walked, watchPaths>>
       ELSE /\ walked' = TRUE
            /\ watchPaths' = Walk(fsTree, excludes, includes, localDir)
            /\ UNCHANGED panicked
    /\ UNCHANGED <<fsTree, excludes, includes>>
    /\ UNCHANGED <<mainVars, ctx, sshCtxErr, errch, errchClosed, exit>>
    /\ UNCHANGED <<tunnelVars, syncVars, watchPc, failed, writerVars, setupVars, offered>>

WatcherNext == NewWatcherWalk

WatcherSpec == WatcherInit /\ [][WatcherNext]_vars

----------------------------------------------------------------------------
(* The claims *)

MainTransfers == mainPc \in {"initXfer", "keyXfer"}

\* C1: no two transfers of the syncer are in flight at once: the outbound
\* transfer of the Sync loop never overlaps an inbound transfer that Run
\* started (the initial sync or the 's'/'d' key).
C1_NoOverlap == ~(syncPc = "xfer" /\ MainTransfers)

\* C2: a call of SyncToCodespace leaves an outbound sync owed wherever the
\* Sync loop is: unless the session is cancelled or something fails, an
\* outbound transfer starts after it.
C2_OwedLeadsToTransfer == owed ~> (~owed \/ ctxDone \/ failed \/ panicked)

\* C3: an interval in which SyncToCodespace was called at least once ends
\* with exactly one outbound transfer started in it.
C3_OneTransferPerInterval ==
    [][(intervalCalls >= 1 /\ intervalCalls' = 0) => intervalXfers = 1]_vars

\* C4: SyncToCodespace never blocks the watcher: whatever the Sync loop is
\* doing the call can complete, and signals are never queued up behind one
\* another.
C4_NeverBlocks ==
    /\ (watchPc = "select" /\ ~panicked) => ENABLED WatchEvent
    /\ sigLen <= 1

\* C4's case: a second call within the interval was made while the outbound
\* transfer started by the first is running, and it returned.
C4_Witness == syncPc = "xfer" /\ owed /\ intervalCalls >= 2 /\ watchPc = "select"

\* C5: once a quit key has been handled Run is on its way out: it has
\* returned or it can take its next step, whatever keys follow.
C5_QuitReturns ==
    (quitHandled /\ mainPc # "done" /\ ~panicked) => ENABLED MainStep

\* C6: when Run calls the tunnel's Close the context is already cancelled.
C6_CancelBeforeClose ==
    [][(mainPc = "deferServerClose" /\ mainPc' = "deferCloseErrch") => ctxDone]_vars

TaskExited(pc) == pc \in {"idle", "done"}

TasksExited ==
    /\ TaskExited(listenPc)
    /\ TaskExited(readyPc)
    /\ TaskExited(syncPc)
    /\ TaskExited(watchPc)

\* C7: after the context is cancelled every background task exits (or the
\* whole process has ended).
C7_TasksExit == ctxDone ~> (TasksExited \/ panicked)

\* C8: when cancellation by the caller is the only reason for stopping no
\* task reports a failure on errch.
C8_NoFailureOnCancel ==
    (ctx = "parent" /\ ~failed /\ ~quitHandled /\ exitCase \in {"none", "ctx", "readyCtx"})
        => errch = <<>>

\* C9: a dispatch loop that ends because the context is cancelled, with no
\* failure, makes Run return nil.
C9_CancelReturnsNil ==
    (mainPc = "done" /\ exitCase = "ctx" /\ ~failed /\ errch = <<>>) => runErr = "nil"

\* C10: the readiness goroutine reaches its send on Ready only after a dial
\* succeeded, and Run never holds parameters of a port no dial reached.
C10_ReadyOnlyAfterProbe ==
    /\ readyPc = "publish" => probed
    /\ conn # NoConn => probed

\* C11: when Listen returns because the tunnel process has exited by itself
\* before any banner was parsed, whatever the exit status, a failure goes on
\* Run's errch.
C11_ExitBeforeBannerReported ==
    [][(/\ listenPc = "select" /\ listenPc' = "done"
        /\ lerrch # <<>> /\ lerrch' = Tail(lerrch)
        /\ Head(lerrch) \in {"exit0", "exitErr"}
        /\ ~wchClosed /\ ~errchClosed)
        => Len(errch') = Len(errch) + 1]_vars

\* C12: a readiness wait ended by the deadline makes Run return the
\* timeout error, and Run returns the timeout error in no other case: not
\* when the wait took a failure from errch, and not when the context was
\* cancelled before the deadline.
C12_TimeoutDistinct ==
    /\ (exitCase = "readyCtx" /\ sshCtxErr = "deadline") => runErr = "timeout"
    /\ runErr = "timeout" => (exitCase = "readyCtx" /\ sshCtxErr = "deadline")
    /\ (exitCase = "readyCtx" /\ sshCtxErr = "canceled") => runErr = "readyCanceled"

\* C12's case: the deadline passed with no failure and no readiness signal
\* and Run has returned the timeout error.
C12_Witness ==
    /\ mainPc = "done" /\ runErr = "timeout"
    /\ errch = <<>> /\ readyPc # "publish" /\ ctx = "deferred"

\* C13: once the writer has emitted the parameters, a further chunk changes
\* nothing: no second emission, no error on Listen's errch, no panic.
C13_InertAfterEmit ==
    [][(wchClosed /\ pos' = pos + 1)
        => (wch' = wch /\ lerrch' = lerrch /\ ~panicked')]_vars

\* C14: when the whole of a stream that contains the banner has been
\* written, however it was cut into chunks, the writer has emitted the
\* parameters it emits for the banner written in one chunk.
C14_SplitIndependent ==
    (pos = Len(chunks) /\ Flatten(chunks) \in BannerStreams)
        => (wchClosed /\ wch = Write(Banner).conn)

NumAt(tok) == Cardinality({i \in 1..Len(tok) : tok[i] = "@"})

Numeric(tok) == tok # <<>> /\ \A i \in 1..Len(tok) : tok[i] \in DOMAIN DigitVal

\* A banner (a chunk that starts with the marker) that is malformed: fewer
\* than six tokens, a fourth token that is not user@host, or a sixth token
\* that is not a number.
MalformedBanner(p) ==
    /\ HasPrefix(p)
    /\ LET toks == Split(Bytes(p), " ") IN
        \/ Len(toks) < 6
        \/ NumAt(toks[4]) # 1
        \/ ~Numeric(toks[6])

\* C15: a malformed banner puts an error on Listen's errch and emits no
\* parameters, and Listen, taking that error in its select, returns it (it
\* reaches Run's errch as the tunnel's failure).
C15_MalformedIsError ==
    [][/\ (pos' = pos + 1 /\ MalformedBanner(chunks[pos + 1]))
            => (lerrch' = Append(lerrch, "parse") /\ wch' = wch /\ wchClosed' = wchClosed)
       /\ (listenPc = "select" /\ listenPc' = "done" /\ lerrch # <<>> /\ Head(lerrch) = "parse")
            => errch' = Append(errch, SshErr("parse"))]_vars

\* C15's case: a banner whose port is not a number was written, nothing
\* was emitted, and Listen has returned the parser's error.
C15_Witness ==
    /\ pos = 1
    /\ Len(Split(Bytes(chunks[1]), " ")) >= 6
    /\ NumAt(Split(Bytes(chunks[1]), " ")[4]) = 1
    /\ MalformedBanner(chunks[1])
    /\ ~wchClosed
    /\ listenPc = "done"
    /\ errch = <<SshErr("parse")>>

\* C16: the deferred Close neither fails nor returns an error, whatever the
\* state of the tunnel process: it leaves Run's result as it was.
C16_CloseNeverFails ==
    [][(mainPc = "deferServerClose" /\ mainPc' = "deferCloseErrch")
        => (~panicked' /\ runErr' = runErr)]_vars

\* C17: 's' starts SyncToLocal without deletion and 'd' with deletion, the
\* transfer is in flight exactly while Run is inside the handling of that
\* key, and no further key is taken until it has ended.
C17_OneForcedRefresh ==
    /\ KeyXfer("s") = "local" /\ KeyXfer("d") = "localDel"
    /\ mainPc = "keyXfer" => mainXfer \in {"local", "localDel"}
    /\ mainXfer # "none" => (mainPc \in {"initXfer", "keyXfer"} /\ ~ENABLED RunLoopKey)

\* C17's case: a forced refresh with deletion is in flight.
C17_Witness == mainPc = "keyXfer" /\ mainXfer = "localDel"

\* C18: a failure of the Sync loop's outbound transfer that is first in
\* errch is what Run returns in the end, unless Run is returning already
\* for another reason, the user quits, the caller cancels, a step of Run
\* itself fails first or the process panics; and
\* what the dispatch loop takes from errch is what Run returns, whatever
\* else is in errch.
C18_SyncFailureEndsRun ==
    /\ (errch # <<>> /\ Head(errch) = SyncErr("fail"))
          ~> \/ mainPc = "done" /\ runErr = SyncErr("fail")
             \/ exitCase # "none" /\ runErr # SyncErr("fail")
             \/ quitHandled \/ ctx = "parent" \/ panicked
    /\ [][(mainPc = "loop" /\ exitCase' = "errch") => runErr' = Head(errch)]_vars
    /\ [][(exitCase = "errch" /\ ~panicked') => runErr' = runErr]_vars

\* C18's case: Run has returned the Sync loop's failure while a later
\* failure is left in errch.
C18_Witness ==
    /\ mainPc = "done" /\ runErr = SyncErr("fail") /\ exitCase = "errch"
    /\ errch # <<>>

\* C19: the deferred Close, when it returns, changes Run's result only from
\* nil, and only to the error of a Close that failed.
C19_CloseErrorFolded ==
    [][(mainPc = "deferServerClose" /\ mainPc' = "deferCloseErrch" /\ ~panicked')
        => /\ runErr # "nil" => runErr' = runErr
           /\ runErr' # runErr => (procState = "exited" /\ runErr' = "closeFailed")]_vars

\* C19's case: Close failed after an earlier failure and Run returns the
\* earlier failure.
C19_Witness ==
    /\ mainPc = "deferCloseErrch" /\ procState = "exited" /\ ~procKilled
    /\ runErr = SshErr("exitErr")

NotDone(pc) == IF pc = "done" THEN 0 ELSE 1

\* C20: a task that has a failure to report can always send it: errch
\* always has room for one failure of each task that has not ended.
C20_ReportNeverBlocks ==
    /\ Len(errch) + NotDone(listenPc) + NotDone(syncPc) + NotDone(watchPc) <= ErrchCap
    /\ ~panicked =>
        /\ (listenPc = "select" /\ lerrch # <<>>) => ENABLED ListenErr
        /\ syncPc = "xfer" => ENABLED SyncXferDone
        /\ watchPc = "select" => ENABLED WatchError
        /\ (watchPc = "select" /\ ctxDone) => ENABLED WatchCtxDone

\* C20's case: all three tasks have reported a failure and errch holds the
\* three of them.
C20_Witness == Len(errch) = ErrchCap

\* C21: a notification is offered on the syncer's event channel only by the
\* step in which a transfer process exited successfully: none is offered
\* while a transfer runs, and none for a transfer that failed or was killed.
MainXferEndedOk == MainTransfers /\ mainPc' \in {"newWatcher", "loop"}
SyncXferEndedOk == syncPc = "xfer" /\ syncPc' = "select"
C21_OfferOnlyAfterSuccess ==
    [][offered' # "none" => (MainXferEndedOk \/ SyncXferEndedOk)]_vars
C21_Witness == offered = "codespace" /\ syncPc = "select"

\* C22: no syncer is configured and no transfer is started before Run has
\* received the readiness signal, the syncer is configured once, and every
\* transfer runs with the username and port that signal carried.
TransferRunning == mainXfer # "none" \/ syncPc = "xfer"
C22_SyncerUsesReadySignal ==
    /\ [](syncerConn # NoConn \/ TransferRunning \/ syncPc # "idle"
            => conn \in Conns /\ conn = wch /\ syncerConn = conn)
    /\ [][syncerConn # NoConn => syncerConn' = syncerConn]_vars
C22_Witness == syncPc = "xfer" /\ syncerConn = conn /\ conn \in Conns

\* What an exclude or watch entry names: the path below localDir when it
\* has no leading separator, the path as written otherwise.
EntryPath(e) == IF e.abs THEN e.comps ELSE <<"w">> \o e.comps
UnderExclude(p) == \E e \in excludes : IsPrefix(EntryPath(e), p)

\* C23: for the root with the directories a, a/.git and b, the excludes
\* [".git"] and no watch pattern, the walk registers exactly the root, a
\* and b: a/.git is pruned.
ScenarioTree ==
    [p \in AllPaths |->
        IF p \in {<<"w">>, <<"w", "a">>, <<"w", "a", ".git">>, <<"w", "b">>}
        THEN "dir" ELSE "none"]
C23_ScenarioWatchSet ==
    walked /\ fsTree = ScenarioTree /\ excludes = {Entry(FALSE, <<".git">>)}
           /\ includes = {}
        => watchPaths = {<<"w">>, <<"w", "a">>, <<"w", "b">>}

\* C24: for every tree and every list of excludes, no registered path is the
\* path of an exclude entry or lies below one, and every registered path is
\* a directory.
C24_ExcludedSubtreesPruned ==
    walked => \A p \in watchPaths : fsTree[p] = "dir" /\ ~UnderExclude(p)
C24_Witness ==
    /\ walked
    /\ Entry(FALSE, <<".git">>) \in excludes
    /\ fsTree[<<"w", ".git", "o">>] = "dir"
    /\ fsTree[<<"w", "a", "f">>] = "file"
    /\ <<"w", "a">> \in watchPaths

\* C25: with no watch pattern the walk registers every directory that is
\* not excluded; with watch patterns it registers, of those, only the
\* directories a pattern names and their ancestors.
C25_IncludeRestriction ==
    walked =>
        watchPaths =
            {p \in AllPaths :
                /\ fsTree[p] = "dir"
                /\ ~UnderExclude(p)
                /\ \/ includes = {}
                   \/ \E i \in includes : IsPrefix(p, EntryPath(i))}
C25_Witness ==
    /\ walked
    /\ includes = {Entry(FALSE, <<"a">>)}
    /\ fsTree[<<"w", "b">>] = "dir"
    /\ fsTree[<<"w", "a", "f">>] = "dir"
    /\ watchPaths = {<<"w">>, <<"w", "a">>}

\* C26: the initial sync is the clone exactly when the workspace directory
\* did not exist at setup, and the refresh with the user's delete option
\* exactly when it did; it is started from initialSync only, which Run
\* passes once.
InitialPhase(pc) ==
    IF pc \in {"start", "newServer", "waitReady", "setupSyncer"} THEN 0
    ELSE IF pc = "initialSync" THEN 1
    ELSE 2
C26_CloneIffNoWorkspace ==
    /\ [][mainPc = "initialSync" /\ mainPc' = "initXfer"
            => /\ (mainXfer' = "clone") = ~workspaceExists
               /\ (mainXfer' = "localDel") = (workspaceExists /\ deleteFiles)
               /\ (mainXfer' = "local") = (workspaceExists /\ ~deleteFiles)]_vars
    /\ [][mainPc' = "initXfer" => mainPc \in {"initialSync", "initXfer"}]_vars
    /\ [][InitialPhase(mainPc') >= InitialPhase(mainPc)]_vars
    /\ [](mainXfer = "clone" => mainPc = "initXfer")
C26_Witness == mainPc = "initXfer" /\ mainXfer = "clone" /\ syncPc = "recv"

\* C27: the Sync loop, the watcher task and the keyboard are started only
\* after the initial sync has returned: while Run is in initialSync none of
\* them runs.
C27_NothingBeforeInitialSync ==
    mainPc \in {"initialSync", "initXfer"} => syncPc = "idle" /\ watchPc = "idle"

\* C28: while the outbound transfer of the Sync loop runs, the change that
\* caused it is still indicated as pending; the indication is cleared only
\* when the transfer has completed.
C28_PendingUntilTransferDone == syncPc = "xfer" => (sigLen > 0 \/ owed)

\* C29: after a forced refresh by the 's' or 'd' key has completed, the
\* dispatch loop receives its notification and a status line is shown.
C29_RefreshNotificationShown ==
    (offered \in {"local", "localDel"} /\ mainPc = "loop")
        ~> (lastEvent \in {"local", "localDel"})

\* C30: the syncType offered after a transfer describes that transfer:
\* codespace for the outbound one, local for an inbound one without
\* deletion and local with deletion for an inbound one with deletion; and
\* the outbound transfer runs with deletion.
C30_TagDescribesTransfer ==
    /\ [][offered' # "none"
            => offered' = IF syncPc = "xfer" /\ syncPc' # "xfer" THEN "codespace"
                          ELSE IF mainXfer = "localDel" THEN "localDel"
                          ELSE IF mainXfer = "local" THEN "local"
                          ELSE "none"]_vars
    /\ [](syncPc = "xfer" => SyncArgs.deleteFiles)
C30_Witness == offered = "localDel" /\ mainPc = "loop"

\* The phase of the session Run is in: Selecting, TunnelConnecting,
\* AwaitingReady, InitialSync, Watching/Interactive, Terminated.
Phase(pc) ==
    CASE pc = "start" -> 1
      [] pc = "newServer" -> 2
      [] pc = "waitReady" -> 3
      [] pc \in {"setupSyncer", "initialSync", "initXfer"} -> 4
      [] pc \in {"newWatcher", "getKeys", "loop", "keyXfer", "showSync", "sendExit"} -> 5
      [] OTHER -> 6

\* C31: the session passes its phases in order, to the next phase or to
\* Terminated, never back; and once it is Terminated no transfer, no
\* watcher task and no tunnel process is started.
C31_PhaseOrder ==
    /\ [][Phase(mainPc') \in {Phase(mainPc), Phase(mainPc) + 1, 6}]_vars
    /\ [][Phase(mainPc) = 6
            => /\ ~(syncPc # "xfer" /\ syncPc' = "xfer")
               /\ ~(mainXfer = "none" /\ mainXfer' # "none")
               /\ ~(watchPc = "idle" /\ watchPc' # "idle")
               /\ ~(procState # "running" /\ procState' = "running")]_vars

\* C32: no task sends on Run's errch after Run has closed it: no step
\* panics once errch is closed.
C32_NoSendOnClosedErrch == [][errchClosed /\ ~panicked => ~panicked']_vars

\* C33: no outbound transfer starts before the initial sync has completed:
\* until Run is past the initial sync the watcher is not started, no change
\* signal exists, and the Sync loop, though running, is not in a transfer.
C33_NoOutboundBeforeInitialSync ==
    /\ [](Phase(mainPc) <= 4 => syncPc # "xfer" /\ ~owed /\ sigLen = 0
                                  /\ intervalXfers = 0)
    /\ [](watchPc # "idle" => Phase(mainPc) >= 5)
    /\ [][syncPc # "xfer" /\ syncPc' = "xfer" => watchPc # "idle"]_vars
C33_Witness == mainPc = "initXfer" /\ mainXfer = "localDel" /\ syncPc = "recv"

====
